---- MODULE Spec2Model ----
(***************************************************************************)
(* Model of embassy-rp/src/bootsel.rs: polling the BOOTSEL button, which   *)
(* is multiplexed onto the chip-select pin of the QSPI flash (RP2040).     *)
(*                                                                         *)
(* The program is poll_bootsel_unsafe() and the RAM-resident               *)
(* poll_bootsel_ramfunc(); one action per statement (each volatile         *)
(* register access is a step of its own).  The hardware the code reads is  *)
(* the environment: twelve DMA channels, the XIP streaming counter, the    *)
(* XIP status flags, the pad input of the chip-select pin, and core 1.     *)
(***************************************************************************)
EXTENDS Naturals, Sequences, FiniteSets

\* ------------------------------------------------------------ constants
\* const SRAM_LOWER: u32 = 0x2000_0000
SRAM_LOWER == 536870912
\* for n in 0..12
NUM_CH == 12

\* ------------------------------------------------------------ bounds
\* DMA channels that are programmed (not in their reset state) at a time
MaxActive == 1
\* largest value the application loads into the streaming-read counter
MaxStream == 1

Channels == 0 .. (NUM_CH - 1)

\* read addresses a programmed channel is observed at: the last flash-side
\* address and the first SRAM address
DmaAddrs == {SRAM_LOWER - 1, SRAM_LOWER}

\* a channel after reset: READ_ADDR = 0, BUSY = 0
DmaReset == [addr |-> 0, busy |-> FALSE]

\* IO_QSPI GPIO_QSPI_SS_CTRL as the fields the code and its callers see
CtrlReg(f, o, e) == [funcsel |-> f, outover |-> o, oeover |-> e]

\* the value the control register holds while the application runs from flash
CtrlXip == CtrlReg("XIP", "NORMAL", "NORMAL")

\* an optional value (Rust's Option, or a local not yet assigned)
None == {}
Some(v) == {v}
OptBool == {None} \cup {Some(b) : b \in BOOLEAN}

VARIABLES
    pc,         \* position of the poll invocation
    cpuid,      \* SIO.cpuid of the core the invocation runs on
    n,          \* loop variable of for n in 0..12
    button_state, \* local of poll_bootsel_ramfunc / poll_bootsel_unsafe
    ret,        \* value the invocation returned, None before
    cs,         \* core 0 is inside critical_section::with
    core1,      \* "running" or "paused"
    ctrl,       \* IO_QSPI.gpio(1).ctrl()
    infrompad,  \* IO_QSPI.gpio(1).status().infrompad()
    dma,        \* DMA.ch(n): read_addr and ctrl_trig.busy
    stream_ctr, \* XIP_CTRL.stream_ctr()
    xip,        \* XIP_CTRL.stat(): fifo_empty, flush_ready
    log,        \* steps the current invocation has taken
    passed,     \* DMA channels the current invocation has passed, in order
    window,     \* raw input levels seen since the window was entered
    last,       \* button state of the latest sample, None once the input has moved
    entry,      \* value of ctrl when the current invocation was called
    stack       \* invocations preempted by an interrupt handler that polls

vars == <<pc, cpuid, n, button_state, ret, cs, core1, ctrl, infrompad, dma,
          stream_ctr, xip, log, passed, window, last, entry, stack>>

prog == <<pc, cpuid, n, button_state, ret, cs, ctrl, log, passed, entry, stack>>
hw   == <<dma, stream_ctr, xip>>

\* the values of GPIO_QSPI_SS_CTRL the model distinguishes
CtrlRegs == [funcsel : {"XIP", "NULL"}, outover : {"NORMAL", "HIGH"},
             oeover : {"NORMAL", "DISABLE", "ENABLE"}]

\* the frame of an invocation that an interrupt handler has preempted
Frames == [pc : STRING, n : 0 .. NUM_CH, button_state : OptBool, ret : OptBool,
           log : Seq(STRING), passed : Seq(Channels), window : SUBSET BOOLEAN,
           entry : CtrlRegs]

\* positions inside poll_bootsel_ramfunc
RamPcs == {"xip", "disable", "delay", "sample", "restore", "ram_ret"}
\* positions inside the closure of critical_section::with
CsPcs == {"dma_addr", "dma_busy", "stream"} \cup RamPcs \cup {"cs_exit"}

TypeOK ==
    /\ pc \in {"idle", "assert", "pause", "pause_wait", "cs_enter", "resume",
               "return", "returned", "panicked"} \cup CsPcs
    /\ cpuid \in {0, 1}
    /\ n \in 0 .. NUM_CH
    /\ button_state \in OptBool
    /\ ret \in OptBool
    /\ cs \in BOOLEAN
    /\ core1 \in {"running", "paused"}
    /\ ctrl \in CtrlRegs
    /\ infrompad \in BOOLEAN
    /\ dma \in [Channels -> [addr : DmaAddrs \cup {0}, busy : BOOLEAN]]
    /\ stream_ctr \in 0 .. MaxStream
    /\ xip \in [fifo_empty : BOOLEAN, flush_ready : BOOLEAN]
    /\ log \in Seq(STRING)
    /\ passed \in Seq(Channels)
    /\ window \subseteq BOOLEAN
    /\ last \in OptBool
    /\ entry \in CtrlRegs
    /\ stack \in Seq(Frames)

\* the state before the first call, but for the pin's control register
InitRest ==
    /\ pc = "idle"
    /\ cpuid = 0
    /\ n = 0
    /\ button_state = None
    /\ ret = None
    /\ cs = FALSE
    /\ core1 = "running"
    /\ infrompad \in BOOLEAN
    /\ dma = [c \in Channels |-> DmaReset]
    /\ stream_ctr = 0
    /\ xip = [fifo_empty |-> TRUE, flush_ready |-> TRUE]
    /\ log = << >>
    /\ passed = << >>
    /\ window = {}
    /\ last = None
    /\ stack = << >>

\* the program executes from flash: the pin is the flash's chip select
Init ==
    /\ ctrl = CtrlXip
    /\ entry = ctrl
    /\ InitRest

\* the values the register may hold before a call: a program that executes from
\* flash has the pin at function XIP with its output not overridden, one loaded
\* into RAM may have it at anything; the output enable is not found disabled
CtrlBefore ==
    {r \in CtrlRegs : /\ r.oeover # "DISABLE"
                      /\ r.funcsel = "XIP" => r.outover = "NORMAL"}

InitCtrl ==
    /\ ctrl \in CtrlBefore
    /\ entry = ctrl
    /\ InitRest

\* ------------------------------------------------------------ poll_bootsel_unsafe

\* the application calls poll_bootsel_unsafe() on core `id`
Call(id) ==
    /\ pc \in {"idle", "returned"}
    /\ pc' = "assert"
    /\ cpuid' = id
    /\ n' = 0
    /\ button_state' = None
    /\ ret' = None
    /\ log' = << >>
    /\ passed' = << >>
    /\ window' = {}
    /\ entry' = ctrl
    /\ UNCHANGED <<stack, cs, core1, ctrl, infrompad, hw, last>>

\* mutant: the assertion stands after pause_core1()
AssertCore0_AfterPause ==
    /\ pc = "assert"
    /\ core1' = "paused"
    /\ log' = Append(log, "pause")
    /\ pc' = IF cpuid = 0 THEN "cs_enter" ELSE "panicked"
    /\ UNCHANGED <<stack, entry, cpuid, n, button_state, ret, cs, ctrl, infrompad, hw,
                   passed, window, last>>

\* mutant: the core id is not checked
AssertCore0_Unchecked ==
    /\ pc = "assert"
    /\ pc' = "pause"
    /\ UNCHANGED <<stack, entry, cpuid, n, button_state, ret, cs, core1, ctrl, infrompad, hw,
                   log, passed, window, last>>

\* assert!(rp_pac::SIO.cpuid().read() == 0, "Need to be on core 0")
AssertCore0 ==
    /\ pc = "assert"
    /\ pc' = IF cpuid = 0 THEN "pause" ELSE "panicked"
    /\ UNCHANGED <<stack, entry, cpuid, n, button_state, ret, cs, core1, ctrl, infrompad, hw,
                   log, passed, window, last>>

\* mutant: core 1 is not paused
PauseCore1_Skipped ==
    /\ pc = "pause"
    /\ pc' = "cs_enter"
    /\ UNCHANGED <<stack, entry, cpuid, n, button_state, ret, cs, core1, ctrl, infrompad, hw,
                   log, passed, window, last>>

\* multicore::pause_core1(): the request
PauseCore1 ==
    /\ pc = "pause"
    /\ pc' = "pause_wait"
    /\ log' = Append(log, "pause")
    /\ UNCHANGED <<stack, entry, cpuid, n, button_state, ret, cs, core1, ctrl, infrompad, hw,
                   passed, window, last>>

\* pause_other_core(): core 1 reaches a suspension point and halts there
Core1Park ==
    /\ pc = "pause_wait"
    /\ core1 = "running"
    /\ core1' = "paused"
    /\ UNCHANGED <<prog, infrompad, hw, window, last>>

\* pause_other_core() does not return while core 1 could still access flash
Core1Halted == core1 = "paused"

\* resume_other_core(): releases the halted core back to its scheduler
Core1Release == core1' = "running"

\* multicore::pause_core1() returns
PauseCore1Return ==
    /\ pc = "pause_wait"
    /\ Core1Halted
    /\ pc' = "cs_enter"
    /\ UNCHANGED <<stack, entry, cpuid, n, button_state, ret, cs, core1, ctrl, infrompad, hw,
                   log, passed, window, last>>

\* mutant: the DMA and stream loops run before critical_section::with
CsEnter_Unmasked ==
    /\ pc = "cs_enter"
    /\ n' = 0
    /\ pc' = "dma_addr"
    /\ UNCHANGED <<stack, entry, cpuid, button_state, ret, cs, core1, ctrl, infrompad, hw,
                   log, passed, window, last>>

\* critical_section::with(|cs| { ... : acquire, then for n in 0..12
CsEnter ==
    /\ pc = "cs_enter"
    /\ cs' = TRUE
    /\ n' = 0
    /\ pc' = "dma_addr"
    /\ log' = Append(log, "cs_enter")
    /\ UNCHANGED <<stack, entry, cpuid, button_state, ret, core1, ctrl, infrompad, hw,
                   passed, window, last>>

\* mutant: the for loop ends one channel early (for n in 0..11)
PassChannel_OffByOne ==
    /\ n' = n + 1
    /\ passed' = Append(passed, n)
    /\ pc' = IF n + 1 < NUM_CH - 1 THEN "dma_addr" ELSE "stream"

\* leaving the while loop of channel n: next n, or the end of the for loop
PassChannel ==
    /\ n' = n + 1
    /\ passed' = Append(passed, n)
    /\ pc' = IF n + 1 < NUM_CH THEN "dma_addr" ELSE "stream"

\* mutant: the address bound is inclusive (read_addr <= SRAM_LOWER)
DmaReadAddr_Inclusive ==
    /\ pc = "dma_addr"
    /\ IF dma[n].addr <= SRAM_LOWER
          THEN pc' = "dma_busy" /\ UNCHANGED <<n, passed>>
          ELSE PassChannel
    /\ UNCHANGED <<stack, entry, cpuid, button_state, ret, cs, core1, ctrl, infrompad, hw,
                   log, window, last>>

\* while ch.read_addr().read() < SRAM_LOWER && ...   (left operand)
DmaReadAddr ==
    /\ pc = "dma_addr"
    /\ IF dma[n].addr < SRAM_LOWER
          THEN pc' = "dma_busy" /\ UNCHANGED <<n, passed>>
          ELSE PassChannel
    /\ UNCHANGED <<stack, entry, cpuid, button_state, ret, cs, core1, ctrl, infrompad, hw,
                   log, window, last>>

\* mutant: the busy flag is read once and not waited for
DmaReadBusy_NoWait ==
    /\ pc = "dma_busy"
    /\ PassChannel
    /\ UNCHANGED <<stack, entry, cpuid, button_state, ret, cs, core1, ctrl, infrompad, hw,
                   log, window, last>>

\* ... && ch.ctrl_trig().read().busy() {}            (right operand)
DmaReadBusy ==
    /\ pc = "dma_busy"
    /\ IF dma[n].busy
          THEN pc' = "dma_addr" /\ UNCHANGED <<n, passed>>
          ELSE PassChannel
    /\ UNCHANGED <<stack, entry, cpuid, button_state, ret, cs, core1, ctrl, infrompad, hw,
                   log, window, last>>

\* mutant: the counter is read once and not waited for (`if` for `while`)
StreamRead_NoWait ==
    /\ pc = "stream"
    /\ pc' = "xip"
    /\ log' = Append(log, "stream_zero")
    /\ window' = {infrompad}
    /\ UNCHANGED <<stack, entry, cpuid, n, button_state, ret, cs, core1, ctrl, infrompad, hw,
                   passed, last>>

\* mutant: the loop condition is stream_ctr >= 0, true of every u32
StreamRead_NeverZero ==
    /\ pc = "stream"
    /\ UNCHANGED vars

\* while rp_pac::XIP_CTRL.stream_ctr().read().0 > 0 {}, then the call of
\* poll_bootsel_ramfunc(&cs)
StreamRead ==
    /\ pc = "stream"
    /\ IF stream_ctr > 0
          THEN UNCHANGED <<pc, log, window>>
          ELSE /\ pc' = "xip"
               /\ log' = Append(log, "stream_zero")
               /\ window' = {infrompad}
    /\ UNCHANGED <<stack, entry, cpuid, n, button_state, ret, cs, core1, ctrl, infrompad, hw,
                   passed, last>>

\* ------------------------------------------------------------ poll_bootsel_ramfunc

\* mutant: either flag ends the loop (|| for &&)
XipStatRead_Either ==
    /\ pc = "xip"
    /\ IF xip.fifo_empty \/ xip.flush_ready
          THEN pc' = "disable" /\ log' = Append(log, "xip_idle")
          ELSE UNCHANGED <<pc, log>>
    /\ UNCHANGED <<stack, entry, cpuid, n, button_state, ret, cs, core1, ctrl, infrompad, hw,
                   passed, window, last>>

\* loop { let xip_status = XIP_CTRL.stat().read();
\*        if xip_status.fifo_empty() && xip_status.flush_ready() { break; } }
XipStatRead ==
    /\ pc = "xip"
    /\ IF xip.fifo_empty /\ xip.flush_ready
          THEN pc' = "disable" /\ log' = Append(log, "xip_idle")
          ELSE UNCHANGED <<pc, log>>
    /\ UNCHANGED <<stack, entry, cpuid, n, button_state, ret, cs, core1, ctrl, infrompad, hw,
                   passed, window, last>>

\* mutant: reg.modify(|g| ...), the read-modify-write of the one field
WriteOeover_Modify(v) == [ctrl EXCEPT !.oeover = v]

\* reg.write(|g| ...): the closure is applied to the register's default
\* value (all fields zero) and the whole register is written
WriteOeover(v) == CtrlReg("XIP", "NORMAL", v)

\* mutant: the first write names the wrong variant (Oeover::ENABLE)
DisableOutput_Enable ==
    /\ pc = "disable"
    /\ ctrl' = CtrlReg("XIP", "NORMAL", "ENABLE")
    /\ pc' = "delay"
    /\ log' = Append(log, "disable")
    /\ UNCHANGED <<stack, entry, cpuid, n, button_state, ret, cs, core1, infrompad, hw,
                   passed, window, last>>

\* chip_select.ctrl().write(|g| g.set_oeover(Oeover::DISABLE))
DisableOutput ==
    /\ pc = "disable"
    /\ ctrl' = WriteOeover("DISABLE")
    /\ pc' = "delay"
    /\ log' = Append(log, "disable")
    /\ UNCHANGED <<stack, entry, cpuid, n, button_state, ret, cs, core1, infrompad, hw,
                   passed, window, last>>

\* cortex_m::asm::delay(2000)
Delay ==
    /\ pc = "delay"
    /\ pc' = "sample"
    /\ log' = Append(log, "delay")
    /\ UNCHANGED <<stack, entry, cpuid, n, button_state, ret, cs, core1, ctrl, infrompad, hw,
                   passed, window, last>>

\* mutant: the active-low input is not inverted
Sample_NoInvert ==
    /\ pc = "sample"
    /\ button_state' = Some(infrompad)
    /\ pc' = "restore"
    /\ log' = Append(log, "sample")
    /\ last' = Some(infrompad)
    /\ UNCHANGED <<stack, entry, cpuid, n, ret, cs, core1, ctrl, infrompad, hw,
                   passed, window>>

\* mutant: the press is reported once, on its edge, using the previous sample
Sample_EdgeDetect ==
    /\ pc = "sample"
    /\ button_state' = Some(~infrompad /\ last # Some(TRUE))
    /\ pc' = "restore"
    /\ log' = Append(log, "sample")
    /\ last' = Some(~infrompad)
    /\ UNCHANGED <<stack, entry, cpuid, n, ret, cs, core1, ctrl, infrompad, hw,
                   passed, window>>

\* let button_state = !chip_select.status().read().infrompad()
Sample ==
    /\ pc = "sample"
    /\ button_state' = Some(~infrompad)
    /\ pc' = "restore"
    /\ log' = Append(log, "sample")
    /\ last' = Some(~infrompad)
    /\ UNCHANGED <<stack, entry, cpuid, n, ret, cs, core1, ctrl, infrompad, hw,
                   passed, window>>

\* mutant: the override is not restored
RestoreOutput_Omitted ==
    /\ pc = "restore"
    /\ pc' = "ram_ret"
    /\ UNCHANGED <<stack, entry, cpuid, n, button_state, ret, cs, core1, ctrl, infrompad, hw,
                   log, passed, window, last>>

\* chip_select.ctrl().write(|g| g.set_oeover(Oeover::NORMAL))
RestoreOutput ==
    /\ pc = "restore"
    /\ ctrl' = WriteOeover("NORMAL")
    /\ pc' = "ram_ret"
    /\ log' = Append(log, "restore")
    /\ UNCHANGED <<stack, entry, cpuid, n, button_state, ret, cs, core1, infrompad, hw,
                   passed, window, last>>

\* button_state  (poll_bootsel_ramfunc returns into the closure)
RamfuncReturn ==
    /\ pc = "ram_ret"
    /\ pc' = "cs_exit"
    /\ UNCHANGED <<stack, entry, cpuid, n, button_state, ret, cs, core1, ctrl, infrompad, hw,
                   log, passed, window, last>>

\* }); the closure returns and critical_section::with releases
CsExit ==
    /\ pc = "cs_exit"
    /\ cs' = FALSE
    /\ pc' = "resume"
    /\ log' = Append(log, "cs_exit")
    /\ UNCHANGED <<stack, entry, cpuid, n, button_state, ret, core1, ctrl, infrompad, hw,
                   passed, window, last>>

\* mutant: core 1 is not resumed
ResumeCore1_Skipped ==
    /\ pc = "resume"
    /\ pc' = "return"
    /\ UNCHANGED <<stack, entry, cpuid, n, button_state, ret, cs, core1, ctrl, infrompad, hw,
                   log, passed, window, last>>

\* multicore::resume_core1()
ResumeCore1 ==
    /\ pc = "resume"
    /\ Core1Release
    /\ pc' = "return"
    /\ log' = Append(log, "resume")
    /\ UNCHANGED <<stack, entry, cpuid, n, button_state, ret, cs, ctrl, infrompad, hw,
                   passed, window, last>>

\* button_state  (poll_bootsel_unsafe returns)
Return ==
    /\ pc = "return"
    /\ ret' = button_state
    /\ pc' = "returned"
    /\ UNCHANGED <<stack, entry, cpuid, n, button_state, cs, core1, ctrl, infrompad, hw,
                   log, passed, window, last>>

\* ------------------------------------------------------------ interrupts of core 0

\* positions of poll_bootsel_unsafe outside critical_section::with, where the
\* interrupts of core 0 are enabled
IrqPcs == {"assert", "pause", "pause_wait", "cs_enter", "resume", "return"}

\* an interrupt handler of core 0 preempts the invocation and calls
\* poll_bootsel_unsafe() itself
IrqPoll ==
    /\ pc \in IrqPcs
    /\ cpuid = 0
    /\ stack = << >>
    /\ stack' = <<[pc |-> pc, n |-> n, button_state |-> button_state, ret |-> ret,
                   log |-> log, passed |-> passed, window |-> window,
                   entry |-> entry]>>
    /\ pc' = "assert"
    /\ n' = 0
    /\ button_state' = None
    /\ ret' = None
    /\ log' = << >>
    /\ passed' = << >>
    /\ window' = {}
    /\ entry' = ctrl
    /\ UNCHANGED <<cpuid, cs, core1, ctrl, infrompad, hw, last>>

\* the handler's poll has returned and the handler ends: the preempted invocation
\* goes on where it was; its log records a handler that ran between the return
\* of pause_core1 and critical_section::with
IrqReturn ==
    /\ pc = "returned"
    /\ stack # << >>
    /\ LET f == stack[Len(stack)] IN
          /\ pc' = f.pc
          /\ n' = f.n
          /\ button_state' = f.button_state
          /\ ret' = f.ret
          /\ log' = IF f.pc = "cs_enter" /\ f.log = <<"pause">>
                       THEN Append(f.log, "irq_poll")
                       ELSE f.log
          /\ passed' = f.passed
          /\ window' = f.window
          /\ entry' = f.entry
    /\ stack' = << >>
    /\ UNCHANGED <<cpuid, cs, core1, ctrl, infrompad, hw, last>>

\* ------------------------------------------------------------ hardware

\* somebody may program the DMA and the XIP streaming interface: the application
\* on core 0 between two polls, or core 1 while it runs
MayProgram == pc \in {"idle", "returned"} \/ core1 = "running"

Active(d) == {c \in Channels : d[c] # DmaReset}

\* a transfer is started on channel c, reading from a
DmaStart(c, a) ==
    /\ MayProgram
    /\ ~dma[c].busy
    /\ Cardinality(Active(dma) \cup {c}) <= MaxActive
    /\ dma' = [dma EXCEPT ![c] = [addr |-> a, busy |-> TRUE]]
    /\ UNCHANGED <<prog, core1, infrompad, stream_ctr, xip, window, last>>

\* a busy channel reads its last flash word: READ_ADDR increments into SRAM
DmaAdvance(c) ==
    /\ dma[c].busy
    /\ dma[c].addr = SRAM_LOWER - 1
    /\ dma' = [dma EXCEPT ![c].addr = SRAM_LOWER]
    /\ UNCHANGED <<prog, core1, infrompad, stream_ctr, xip, window, last>>

\* a busy channel completes: BUSY clears
DmaFinish(c) ==
    /\ dma[c].busy
    /\ dma' = [dma EXCEPT ![c].busy = FALSE]
    /\ UNCHANGED <<prog, core1, infrompad, stream_ctr, xip, window, last>>

\* a streaming read of k words is started: the FIFO fills
StreamStart(k) ==
    /\ MayProgram
    /\ stream_ctr = 0
    /\ stream_ctr' = k
    /\ xip' = [xip EXCEPT !.fifo_empty = FALSE]
    /\ UNCHANGED <<prog, core1, infrompad, dma, window, last>>

\* the streaming hardware fetches one word
StreamStep ==
    /\ stream_ctr > 0
    /\ stream_ctr' = stream_ctr - 1
    /\ UNCHANGED <<prog, core1, infrompad, dma, xip, window, last>>

\* the streaming FIFO is drained
FifoDrain ==
    /\ ~xip.fifo_empty
    /\ xip' = [xip EXCEPT !.fifo_empty = TRUE]
    /\ UNCHANGED <<prog, core1, infrompad, dma, stream_ctr, window, last>>

\* a cache flush is started by code that runs from flash
CacheFlush ==
    /\ MayProgram
    /\ xip.flush_ready
    /\ xip' = [xip EXCEPT !.flush_ready = FALSE]
    /\ UNCHANGED <<prog, core1, infrompad, dma, stream_ctr, window, last>>

\* the cache flush completes
FlushDone ==
    /\ ~xip.flush_ready
    /\ xip' = [xip EXCEPT !.flush_ready = TRUE]
    /\ UNCHANGED <<prog, core1, infrompad, dma, stream_ctr, window, last>>

\* the raw input level of the pad changes (button pressed or released)
PadChange ==
    /\ infrompad' = ~infrompad
    /\ window' = IF pc \in RamPcs THEN window \cup {~infrompad} ELSE window
    /\ last' = None
    /\ UNCHANGED <<prog, core1, hw>>

\* ------------------------------------------------------------ specification

Core0Step ==
    \/ AssertCore0
    \/ PauseCore1
    \/ PauseCore1Return
    \/ CsEnter
    \/ DmaReadAddr
    \/ DmaReadBusy
    \/ StreamRead
    \/ XipStatRead
    \/ DisableOutput
    \/ Delay
    \/ Sample
    \/ RestoreOutput
    \/ RamfuncReturn
    \/ CsExit
    \/ ResumeCore1
    \/ Return

\* the steps of the flash-side hardware
HwStep ==
    \/ \E c \in Channels, a \in DmaAddrs : DmaStart(c, a)
    \/ \E c \in Channels : DmaAdvance(c)
    \/ \E c \in Channels : DmaFinish(c)
    \/ \E k \in 1 .. MaxStream : StreamStart(k)
    \/ StreamStep
    \/ FifoDrain
    \/ CacheFlush
    \/ FlushDone

Next ==
    \/ \E id \in {0, 1} : Call(id)
    \/ Core0Step
    \/ Core1Park
    \/ HwStep
    \/ PadChange

\* one invocation, the level of the button held
LiveNext ==
    \/ \E id \in {0, 1} : pc = "idle" /\ Call(id)
    \/ Core0Step
    \/ Core1Park
    \/ HwStep

Spec == Init /\ [][Next]_vars

\* as Next, with interrupt handlers of core 0 that poll
IrqNext ==
    \/ \E id \in {0, 1} : stack = << >> /\ Call(id)
    \/ Core0Step
    \/ Core1Park
    \/ HwStep
    \/ PadChange
    \/ IrqPoll
    \/ IrqReturn

SpecIrq == Init /\ [][IrqNext]_vars

\* one invocation from every value of the pin's control register
SpecCtrl == InitCtrl /\ [][LiveNext]_vars

\* the transfer of the channel the checker is waiting for completes
AwaitedDmaFinish == pc \in {"dma_addr", "dma_busy"} /\ DmaFinish(n)

\* weak fairness of what the liveness claim presupposes: core 0 keeps executing
\* (it runs with interrupts masked and does not yield), and every awaited
\* hardware condition eventually comes about
\* (one invocation from any state of the hardware, the button held: neither the
\* button nor an earlier invocation has a part in the control flow)
LiveSpec ==
    /\ Init
    /\ [][LiveNext]_vars
    /\ WF_vars(Core0Step)
    /\ WF_vars(AwaitedDmaFinish)
    /\ WF_vars(StreamStep)
    /\ WF_vars(FifoDrain)
    /\ WF_vars(FlushDone)

\* ------------------------------------------------------------ properties

InLog(e) == \E i \in DOMAIN log : log[i] = e
Count(e) == Cardinality({i \in DOMAIN log : log[i] = e})
Before(a, b) == \E i, j \in DOMAIN log : i < j /\ log[i] = a /\ log[j] = b

\* the invocation has left its entry point
Exited == pc \in {"returned", "panicked"}

\* channel c is busy and reads from below SRAM_LOWER
Hazard(c) == dma[c].addr < SRAM_LOWER /\ dma[c].busy

InDmaLoop == pc \in {"dma_addr", "dma_busy"}

\* the steps one complete invocation logs, in order
FullProtocol == <<"pause", "cs_enter", "stream_zero", "xip_idle", "disable",
                  "delay", "sample", "restore", "cs_exit", "resume">>
AllChannels == [i \in 1 .. NUM_CH |-> i - 1]

\* C1 as stated: every invocation calls pause_core1 and resume_core1 exactly
\* once each, pause first, and no exit (return or panic) happens without
\* resume_core1 having been called.
C1_Original ==
    Exited => Count("pause") = 1 /\ Count("resume") = 1 /\ Before("pause", "resume")

\* C1 as amended: an invocation that passes the core-id assertion calls
\* pause_core1 and resume_core1 exactly once each, pause before resume, and
\* returns only after resume_core1; an invocation that fails the assertion
\* calls neither; no exit leaves core 1 paused.
C1_PauseResumeOnce ==
    /\ Count("pause") <= 1
    /\ Count("resume") <= 1
    /\ InLog("resume") => Before("pause", "resume")
    /\ pc = "returned" => Count("pause") = 1 /\ Count("resume") = 1
    /\ pc = "panicked" => Count("pause") = 0 /\ Count("resume") = 0
    /\ Exited => core1 = "running"

C1_Witness == pc = "returned" /\ InLog("resume") /\ core1 = "running"

C3_NormalOnReturn ==
    pc \in {"return", "returned"} => ctrl.oeover = "NORMAL"

C3_Witness == pc = "returned" /\ ret = Some(TRUE) /\ ctrl.oeover = "NORMAL"

\* C4: the value poll returns is the negation of a raw input level of the
\* window; input held low throughout the window gives true, held high false.
C4_ActiveLow ==
    pc = "returned" =>
        /\ \E v \in window : ret = Some(~v)
        /\ window = {FALSE} => ret = Some(TRUE)
        /\ window = {TRUE} => ret = Some(FALSE)

C4_Witness == pc = "returned" /\ window = {FALSE} /\ ret = Some(TRUE)

\* C5: an invocation on a core whose cpuid is not 0 takes the panic path: it
\* never goes beyond the assertion, never writes DISABLE and returns no value.
C5_WrongCorePanics ==
    cpuid # 0 =>
        /\ pc \in {"assert", "panicked"}
        /\ ~InLog("pause") /\ ~InLog("cs_enter") /\ ~InLog("disable")
        /\ ctrl.oeover # "DISABLE"
        /\ ~cs
        /\ ret = None

C5_Witness == pc = "panicked" /\ cpuid = 1 /\ ret = None

\* C6: the critical section is left only by running to its end, and provided
\* the awaited hardware conditions come about, an invocation that has entered
\* the critical section restores the override, leaves the section, resumes
\* core 1 and returns.
C6_RunsToCompletion ==
    /\ [][cs /\ ~cs' => pc = "cs_exit" /\ pc' = "resume" /\ InLog("restore")]_vars
    /\ cs ~> (pc = "returned" /\ ~cs /\ core1 = "running" /\ ctrl.oeover = "NORMAL")

C6_Witness == pc = "xip" /\ cs /\ ~(xip.fifo_empty /\ xip.flush_ready)

\* C7: every returning invocation has run the whole protocol and returns what
\* its own window sampled; and an invocation that samples while the raw input
\* has not changed since the previous invocation sampled it obtains the button
\* state the previous invocation obtained.
C7_Independent ==
    /\ [](pc = "returned" =>
            log = FullProtocol /\ passed = AllChannels /\ ret = button_state)
    /\ [][pc = "sample" /\ pc' = "restore" /\ last # None =>
              button_state' = last]_vars

\* a later invocation about to sample, the input unchanged since the last sample
C7_Witness == pc = "sample" /\ InLog("delay") /\ last = Some(~infrompad)

\* C8: while channel n is busy with its read address below SRAM_LOWER, no step
\* takes the checker past channel n: n, the passed channels and the logged
\* steps stay as they are and the checker stays in the loop of channel n.
C8_BlockedByBusyFlash ==
    [][InDmaLoop /\ Hazard(n) =>
          n' = n /\ InDmaLoop' /\ passed' = passed /\ log' = log]_vars

C8_Witness == pc = "dma_busy" /\ n > 0 /\ Hazard(n)

\* C9: the checker passes channel n exactly when what it reads is not
\* (read address < SRAM_LOWER and busy): an address at or above SRAM_LOWER
\* passes without a look at busy, a clear busy flag passes at any address.
C9_PassCondition ==
    [][/\ pc = "dma_addr" /\ <<pc, n>>' # <<pc, n>> =>
             (n' = n + 1 <=> dma[n].addr >= SRAM_LOWER)
       /\ pc = "dma_busy" /\ <<pc, n>>' # <<pc, n>> =>
             (n' = n + 1 <=> ~dma[n].busy)]_vars

C9_Witness ==
    InDmaLoop /\ n > 0 /\ dma[n - 1].busy /\ dma[n - 1].addr >= SRAM_LOWER

\* C10: the channels are passed in the order 0..11, each before the next is
\* examined; the streaming counter is read after channel 11 was passed, and
\* the window is entered only after a read of it returned zero.
C10_CheckOrder ==
    /\ \A i \in DOMAIN passed : passed[i] = i - 1
    /\ InDmaLoop => Len(passed) = n /\ n < NUM_CH
    /\ pc = "stream" => passed = AllChannels /\ ~InLog("stream_zero")
    /\ InLog("stream_zero") => passed = AllChannels
    /\ pc \in RamPcs => InLog("stream_zero")
    /\ InLog("disable") => Before("stream_zero", "disable")

C10_Witness == pc = "xip" /\ passed = AllChannels /\ InLog("stream_zero")

\* both flags of the XIP status register are set
XipIdle == xip.fifo_empty /\ xip.flush_ready

\* C11: while a flag of the XIP status is clear the window stays in its
\* polling loop and writes nothing; it leaves the loop only on a read that
\* shows both flags set, and the DISABLE write comes only after that read.
C11_DisableAfterXipIdle ==
    /\ [][pc = "xip" /\ ~XipIdle => pc' = "xip" /\ ctrl' = ctrl /\ log' = log]_vars
    /\ [][pc = "xip" /\ pc' # "xip" =>
              XipIdle /\ pc' = "disable" /\ ctrl' = ctrl]_vars
    /\ [][ctrl'.oeover = "DISABLE" /\ ctrl.oeover # "DISABLE" =>
              pc = "disable" /\ InLog("xip_idle")]_vars

C11_Witness == pc = "xip" /\ xip.fifo_empty /\ ~xip.flush_ready /\ ctrl.oeover = "NORMAL"

\* C12: in the window the DISABLE write, the settling delay, the read of the
\* pin and the NORMAL write happen in this order, once each; from the DISABLE
\* write to the NORMAL write the override is DISABLE, so the pin is read with
\* the override DISABLE and after the delay has returned.
C12_WindowOrder ==
    /\ Count("disable") <= 1 /\ Count("restore") <= 1
    /\ pc = "returned" => Count("disable") = 1 /\ Count("restore") = 1
    /\ InLog("delay") => Before("disable", "delay")
    /\ InLog("sample") => Before("delay", "sample")
    /\ InLog("restore") => Before("sample", "restore")
    /\ pc = "sample" => ctrl.oeover = "DISABLE" /\ InLog("delay")
    /\ button_state # None => InLog("sample")
    /\ ctrl.oeover = "DISABLE" <=> InLog("disable") /\ ~InLog("restore")

C12_Witness == pc = "restore" /\ ctrl.oeover = "DISABLE" /\ button_state # None

IsPrefix(a, b) == Len(a) <= Len(b) /\ \A i \in DOMAIN a : a[i] = b[i]

\* positions of the quiescence checker: its register reads
CheckerPcs == {"dma_addr", "dma_busy", "stream"}

WindowPcs == {"xip", "disable", "delay", "sample", "restore"}

\* C14: given that nothing starts or chains a transfer and no read address moves
\* back below SRAM_LOWER once the exclusive section is entered, from the entry of
\* the window until the override is restored no channel is busy reading from
\* below SRAM_LOWER and the stream counter is zero, although the channels were
\* checked one after another and each with two separate reads
C14_QuietInWindow ==
    pc \in WindowPcs =>
        /\ \A c \in Channels : ~Hazard(c)
        /\ stream_ctr = 0

\* the override is disabled while a channel that passed on its address alone is
\* still busy, in SRAM
C14_Witness ==
    /\ pc = "delay"
    /\ ctrl.oeover = "DISABLE"
    /\ \E c \in Channels : dma[c].busy /\ dma[c].addr = SRAM_LOWER

\* C15: an invocation on core 0 that an interrupt handler running a complete poll
\* has preempted between the return of pause_core1 and the entry of the
\* exclusive section still has core 1 paused throughout its window
C15_PausedAfterNestedPoll ==
    pc \in WindowPcs /\ InLog("irq_poll") => core1 = "paused"

\* C16 as stated: whatever the register held before the call, it holds the same
\* value when poll returns
C16_Original == pc = "returned" => ctrl = entry

\* C16: poll leaves the pin's control register at function XIP with no override,
\* whatever it held before the call: every write of the window sets the whole
\* register, the first to that value with the output enable disabled, the second
\* to that value; the register is as poll found it exactly when it held that
\* value before; up to the first write the register is not changed
C16_LeavesXipNormal ==
    /\ ~InLog("disable") => ctrl = entry
    /\ InLog("disable") /\ ~InLog("restore") => ctrl = CtrlReg("XIP", "NORMAL", "DISABLE")
    /\ InLog("restore") => ctrl = CtrlXip
    /\ pc = "returned" => (ctrl = entry <=> entry = CtrlXip)

C16_Witness == pc = "returned" /\ ret # None /\ entry.funcsel = "NULL" /\ ctrl = CtrlXip

\* C18: an invocation on a core other than core 0 fails before it has had any
\* effect: pause_core1 is not called, the exclusive section is not entered and
\* no register is written, so that at the failure core 1 runs and the pin's
\* control register is as it was at the call
C18_FailsBeforeEffect ==
    cpuid # 0 =>
        /\ pc \in {"assert", "panicked"}
        /\ log = << >>
        /\ passed = << >>
        /\ ~cs
        /\ core1 = "running"
        /\ ctrl = entry
        /\ button_state = None

\* the failure of a call that follows a completed poll
C18_Witness == pc = "panicked" /\ last # None /\ core1 = "running" /\ ctrl = entry

====
